---------------------------- MODULE Spec2Model ----------------------------
(***************************************************************************)
(* Model of the single-instrument limit order book of src/orderbook.hpp   *)
(* and src/orderbook.cpp (class OrderBook).                                *)
(*                                                                         *)
(* Prices are doubles in the source; only their order and equality are    *)
(* used by the code, so a price is modelled as an integer.  NaN prices,   *)
(* for which std::map has no defined behaviour, are outside the model.    *)
(* The ts field of Order and Trade (a clock reading that no code path     *)
(* reads) is not modelled.                                                 *)
(***************************************************************************)
EXTENDS Integers, Sequences, FiniteSets

\* ------------------------------------------------------------------ bounds

MaxId == 3        \* ids 1..MaxId can be issued; submissions stop after that
MaxQty == 2       \* largest quantity a caller submits
MaxPrice == 2     \* ordinary limit prices are 1..MaxPrice

\* ------------------------------------------------------- program constants

MarketBuyPrice == 1000000000   \* 1e9, add_market for a buy
MarketSellPrice == 0           \* 0.0, add_market for a sell

\* -------------------------------------------------------------- input sets

\* add_limit validates no price: a price above 1e9 is accepted like any
\* other (so is a price below 0.0, the mirror case, left out of the inputs).
Prices == (1..MaxPrice) \cup {MarketBuyPrice + 1}
Qtys == (-1)..MaxQty
CancelIds == 0..(MaxId + 1)

VARIABLES
    bids,          \* price -> queue of orders, best = highest price
    asks,          \* price -> queue of orders, best = lowest price
    order_index,   \* id -> [price, is_bid]
    trades,        \* the trade log
    next_id,       \* the id generator
    call,          \* the last call made on the book and its arguments
    ret,           \* what that call returned, and inc.qty when it returned
    submitted,     \* history: sum of accepted quantities since the last clear
    dropped,       \* history: sum of dropped market residuals since the last clear
    only_submits,  \* history: no cancel and no clear has been called yet
    market_ids,    \* history: ids returned by add_market
    cancelled,     \* history: ids for which a cancel returned true
    side_of,       \* history: id -> is_bid of every accepted submission
    inserted,      \* history: id -> quantity with which the order came to rest
    cleared_ids,   \* history: ids that were resting when a clear removed them
    cancelled_qty  \* history: sum of quantities removed by cancel since the last clear

book_vars == <<bids, asks, order_index, trades, next_id>>
vars == <<bids, asks, order_index, trades, next_id, call, ret,
          submitted, dropped, only_submits, market_ids, cancelled,
          side_of, inserted, cleared_ids, cancelled_qty>>

\* ------------------------------------------------------------ data helpers

Order(i, p, q) == [id |-> i, price |-> p, qty |-> q]

Trade(b, s, p, q) == [buyer_id |-> b, seller_id |-> s, price |-> p, qty |-> q]

\* std::min
Min2(a, b) == IF a < b THEN a ELSE b

MinOf(S) == CHOOSE x \in S : \A y \in S : x <= y
MaxOf(S) == CHOOSE x \in S : \A y \in S : x >= y

\* std::map::erase / std::unordered_map::erase of one key
MapErase(m, k) == [x \in (DOMAIN m) \ {k} |-> m[x]]

\* m[k].push_back(o): operator[] creates an empty level when k is absent
LevelPushBack(m, k, o) ==
    [x \in (DOMAIN m) \cup {k} |->
        IF x = k
        THEN (IF k \in DOMAIN m THEN Append(m[k], o) ELSE <<o>>)
        ELSE m[x]]

\* order_index[id] = {price, is_bid}
IndexPut(ix, id, p, b) ==
    [x \in (DOMAIN ix) \cup {id} |->
        IF x = id THEN [price |-> p, is_bid |-> b] ELSE ix[x]]

\* std::deque::erase of the element at position i
DequeErase(level, i) ==
    SubSeq(level, 1, i - 1) \o SubSeq(level, i + 1, Len(level))

EmptyMap == [x \in {} |-> 0]

\* the object's five data members as one value
Book(b, a, ix, tr, n) ==
    [bids |-> b, asks |-> a, order_index |-> ix, trades |-> tr, next_id |-> n]

\* --------------------------------------------------------- OrderBook::match

\* mutant: the incoming bid trades with the back of the level, not its front
RECURSIVE match_bid_level_back(_, _, _, _, _)
match_bid_level_back(inc, key, level, ix, tr) ==
    IF inc.qty > 0 /\ level # <<>>
    THEN LET resting == level[Len(level)]
             front == SubSeq(level, 1, Len(level) - 1)
             trade_qty == Min2(inc.qty, resting.qty)
             tr1 == Append(tr, Trade(inc.id, resting.id, key, trade_qty))
             inc1 == [inc EXCEPT !.qty = @ - trade_qty]
             resting1 == [resting EXCEPT !.qty = @ - trade_qty]
         IN  IF resting1.qty = 0
             THEN match_bid_level_back(inc1, key, front,
                                       MapErase(ix, resting.id), tr1)
             ELSE match_bid_level_back(inc1, key, Append(front, resting1),
                                       ix, tr1)
    ELSE [inc |-> inc, level |-> level, order_index |-> ix, trades |-> tr]

\* mutant: the trade is recorded at the incoming order's price
RECURSIVE match_bid_level_inc_price(_, _, _, _, _)
match_bid_level_inc_price(inc, key, level, ix, tr) ==
    IF inc.qty > 0 /\ level # <<>>
    THEN LET resting == Head(level)
             trade_qty == Min2(inc.qty, resting.qty)
             tr1 == Append(tr, Trade(inc.id, resting.id, inc.price, trade_qty))
             inc1 == [inc EXCEPT !.qty = @ - trade_qty]
             resting1 == [resting EXCEPT !.qty = @ - trade_qty]
         IN  IF resting1.qty = 0
             THEN match_bid_level_inc_price(inc1, key, Tail(level),
                                            MapErase(ix, resting.id), tr1)
             ELSE match_bid_level_inc_price(inc1, key,
                                            <<resting1>> \o Tail(level), ix, tr1)
    ELSE [inc |-> inc, level |-> level, order_index |-> ix, trades |-> tr]

\* mutant: a filled resting ask is popped but its index entry is kept
RECURSIVE match_bid_level_keep_index(_, _, _, _, _)
match_bid_level_keep_index(inc, key, level, ix, tr) ==
    IF inc.qty > 0 /\ level # <<>>
    THEN LET resting == Head(level)
             trade_qty == Min2(inc.qty, resting.qty)
             tr1 == Append(tr, Trade(inc.id, resting.id, key, trade_qty))
             inc1 == [inc EXCEPT !.qty = @ - trade_qty]
             resting1 == [resting EXCEPT !.qty = @ - trade_qty]
         IN  IF resting1.qty = 0
             THEN match_bid_level_keep_index(inc1, key, Tail(level), ix, tr1)
             ELSE match_bid_level_keep_index(inc1, key,
                                             <<resting1>> \o Tail(level), ix, tr1)
    ELSE [inc |-> inc, level |-> level, order_index |-> ix, trades |-> tr]

\* mutant: resting is a copy of level.front(), so a partial fill is not
\* written back to the queue
RECURSIVE match_bid_level_copy(_, _, _, _, _)
match_bid_level_copy(inc, key, level, ix, tr) ==
    IF inc.qty > 0 /\ level # <<>>
    THEN LET resting == Head(level)
             trade_qty == Min2(inc.qty, resting.qty)
             tr1 == Append(tr, Trade(inc.id, resting.id, key, trade_qty))
             inc1 == [inc EXCEPT !.qty = @ - trade_qty]
             resting1 == [resting EXCEPT !.qty = @ - trade_qty]
         IN  IF resting1.qty = 0
             THEN match_bid_level_copy(inc1, key, Tail(level),
                                       MapErase(ix, resting.id), tr1)
             ELSE match_bid_level_copy(inc1, key, level, ix, tr1)
    ELSE [inc |-> inc, level |-> level, order_index |-> ix, trades |-> tr]

\* inner while loop of the bid branch: the incoming bid against one ask level
RECURSIVE match_bid_level(_, _, _, _, _)
match_bid_level(inc, key, level, ix, tr) ==
    IF inc.qty > 0 /\ level # <<>>
    THEN LET resting == Head(level)
             trade_qty == Min2(inc.qty, resting.qty)
             tr1 == Append(tr, Trade(inc.id, resting.id, key, trade_qty))
             inc1 == [inc EXCEPT !.qty = @ - trade_qty]
             resting1 == [resting EXCEPT !.qty = @ - trade_qty]
         IN  IF resting1.qty = 0
             THEN match_bid_level(inc1, key, Tail(level),
                                  MapErase(ix, resting.id), tr1)
             ELSE match_bid_level(inc1, key, <<resting1>> \o Tail(level),
                                  ix, tr1)
    ELSE [inc |-> inc, level |-> level, order_index |-> ix, trades |-> tr]

\* mutant: the crossing test is strict, so an ask at the bid's price is skipped
RECURSIVE match_bid_walk_strict(_, _, _)
match_bid_walk_strict(B, inc, rest) ==
    IF inc.qty > 0 /\ rest # {} /\ MinOf(rest) < inc.price
    THEN LET key == MinOf(rest)
             r == match_bid_level(inc, key, B.asks[key], B.order_index, B.trades)
             book1 == IF r.level = <<>>
                      THEN MapErase(B.asks, key)
                      ELSE [B.asks EXCEPT ![key] = r.level]
         IN  match_bid_walk_strict(
                 Book(B.bids, book1, r.order_index, r.trades, B.next_id),
                 r.inc, rest \ {key})
    ELSE [book |-> B, inc |-> inc]

\* mutant: the walk starts at the highest crossing ask (a descending map)
RECURSIVE match_bid_walk_desc(_, _, _)
match_bid_walk_desc(B, inc, rest) ==
    IF inc.qty > 0 /\ {k \in rest : k <= inc.price} # {}
    THEN LET key == MaxOf({k \in rest : k <= inc.price})
             r == match_bid_level(inc, key, B.asks[key], B.order_index, B.trades)
             book1 == IF r.level = <<>>
                      THEN MapErase(B.asks, key)
                      ELSE [B.asks EXCEPT ![key] = r.level]
         IN  match_bid_walk_desc(
                 Book(B.bids, book1, r.order_index, r.trades, B.next_id),
                 r.inc, rest \ {key})
    ELSE [book |-> B, inc |-> inc]

\* outer while loop of the bid branch; rest is the key range [it, end) of asks
RECURSIVE match_bid_walk(_, _, _)
match_bid_walk(B, inc, rest) ==
    IF inc.qty > 0 /\ rest # {} /\ MinOf(rest) <= inc.price
    THEN LET key == MinOf(rest)
             r == match_bid_level(inc, key, B.asks[key], B.order_index, B.trades)
             book1 == IF r.level = <<>>
                      THEN MapErase(B.asks, key)
                      ELSE [B.asks EXCEPT ![key] = r.level]
         IN  match_bid_walk(Book(B.bids, book1, r.order_index, r.trades, B.next_id),
                            r.inc, rest \ {key})
    ELSE [book |-> B, inc |-> inc]

\* mutant: a filled resting bid is popped but its index entry is kept
RECURSIVE match_ask_level_keep_index(_, _, _, _, _)
match_ask_level_keep_index(inc, key, level, ix, tr) ==
    IF inc.qty > 0 /\ level # <<>>
    THEN LET resting == Head(level)
             trade_qty == Min2(inc.qty, resting.qty)
             tr1 == Append(tr, Trade(resting.id, inc.id, key, trade_qty))
             inc1 == [inc EXCEPT !.qty = @ - trade_qty]
             resting1 == [resting EXCEPT !.qty = @ - trade_qty]
         IN  IF resting1.qty = 0
             THEN match_ask_level_keep_index(inc1, key, Tail(level), ix, tr1)
             ELSE match_ask_level_keep_index(inc1, key,
                                             <<resting1>> \o Tail(level), ix, tr1)
    ELSE [inc |-> inc, level |-> level, order_index |-> ix, trades |-> tr]

\* mutant: the ask branch records the incoming ask as the buyer
RECURSIVE match_ask_level_swapped(_, _, _, _, _)
match_ask_level_swapped(inc, key, level, ix, tr) ==
    IF inc.qty > 0 /\ level # <<>>
    THEN LET resting == Head(level)
             trade_qty == Min2(inc.qty, resting.qty)
             tr1 == Append(tr, Trade(inc.id, resting.id, key, trade_qty))
             inc1 == [inc EXCEPT !.qty = @ - trade_qty]
             resting1 == [resting EXCEPT !.qty = @ - trade_qty]
         IN  IF resting1.qty = 0
             THEN match_ask_level_swapped(inc1, key, Tail(level),
                                          MapErase(ix, resting.id), tr1)
             ELSE match_ask_level_swapped(inc1, key,
                                          <<resting1>> \o Tail(level), ix, tr1)
    ELSE [inc |-> inc, level |-> level, order_index |-> ix, trades |-> tr]

\* mutant: the trade is put at the front of the trade log
RECURSIVE match_ask_level_prepend(_, _, _, _, _)
match_ask_level_prepend(inc, key, level, ix, tr) ==
    IF inc.qty > 0 /\ level # <<>>
    THEN LET resting == Head(level)
             trade_qty == Min2(inc.qty, resting.qty)
             tr1 == <<Trade(resting.id, inc.id, key, trade_qty)>> \o tr
             inc1 == [inc EXCEPT !.qty = @ - trade_qty]
             resting1 == [resting EXCEPT !.qty = @ - trade_qty]
         IN  IF resting1.qty = 0
             THEN match_ask_level_prepend(inc1, key, Tail(level),
                                          MapErase(ix, resting.id), tr1)
             ELSE match_ask_level_prepend(inc1, key,
                                          <<resting1>> \o Tail(level), ix, tr1)
    ELSE [inc |-> inc, level |-> level, order_index |-> ix, trades |-> tr]

\* mutant: the incoming ask trades with the back of the level, not its front
RECURSIVE match_ask_level_back(_, _, _, _, _)
match_ask_level_back(inc, key, level, ix, tr) ==
    IF inc.qty > 0 /\ level # <<>>
    THEN LET resting == level[Len(level)]
             front == SubSeq(level, 1, Len(level) - 1)
             trade_qty == Min2(inc.qty, resting.qty)
             tr1 == Append(tr, Trade(resting.id, inc.id, key, trade_qty))
             inc1 == [inc EXCEPT !.qty = @ - trade_qty]
             resting1 == [resting EXCEPT !.qty = @ - trade_qty]
         IN  IF resting1.qty = 0
             THEN match_ask_level_back(inc1, key, front,
                                       MapErase(ix, resting.id), tr1)
             ELSE match_ask_level_back(inc1, key, Append(front, resting1),
                                       ix, tr1)
    ELSE [inc |-> inc, level |-> level, order_index |-> ix, trades |-> tr]

\* inner while loop of the ask branch: the incoming ask against one bid level
RECURSIVE match_ask_level(_, _, _, _, _)
match_ask_level(inc, key, level, ix, tr) ==
    IF inc.qty > 0 /\ level # <<>>
    THEN LET resting == Head(level)
             trade_qty == Min2(inc.qty, resting.qty)
             tr1 == Append(tr, Trade(resting.id, inc.id, key, trade_qty))
             inc1 == [inc EXCEPT !.qty = @ - trade_qty]
             resting1 == [resting EXCEPT !.qty = @ - trade_qty]
         IN  IF resting1.qty = 0
             THEN match_ask_level(inc1, key, Tail(level),
                                  MapErase(ix, resting.id), tr1)
             ELSE match_ask_level(inc1, key, <<resting1>> \o Tail(level),
                                  ix, tr1)
    ELSE [inc |-> inc, level |-> level, order_index |-> ix, trades |-> tr]

\* outer while loop of the ask branch; rest is the key range [it, end) of bids
RECURSIVE match_ask_walk(_, _, _)
match_ask_walk(B, inc, rest) ==
    IF inc.qty > 0 /\ rest # {} /\ MaxOf(rest) >= inc.price
    THEN LET key == MaxOf(rest)
             r == match_ask_level(inc, key, B.bids[key], B.order_index, B.trades)
             book1 == IF r.level = <<>>
                      THEN MapErase(B.bids, key)
                      ELSE [B.bids EXCEPT ![key] = r.level]
         IN  match_ask_walk(Book(book1, B.asks, r.order_index, r.trades, B.next_id),
                            r.inc, rest \ {key})
    ELSE [book |-> B, inc |-> inc]

match(B, inc, is_bid) ==
    IF is_bid
    THEN match_bid_walk(B, inc, DOMAIN B.asks)
    ELSE match_ask_walk(B, inc, DOMAIN B.bids)

\* ----------------------------------------------------- OrderBook::add_limit

\* mutant: the order that rests is a fresh copy with the submitted quantity
add_limit_rests_full(B, price, qty, is_bid) ==
    IF qty <= 0
    THEN [book |-> B, id |-> 0, inc_qty |-> 0]
    ELSE LET inc == Order(B.next_id, price, qty)
             order_id == inc.id
             m == match([B EXCEPT !.next_id = @ + 1], inc, is_bid)
             M == m.book
         IN  IF m.inc.qty > 0
             THEN [book |->
                      Book(IF is_bid THEN LevelPushBack(M.bids, inc.price, inc)
                                     ELSE M.bids,
                           IF is_bid THEN M.asks
                                     ELSE LevelPushBack(M.asks, inc.price, inc),
                           IndexPut(M.order_index, order_id, price, is_bid),
                           M.trades, M.next_id),
                   id |-> order_id, inc_qty |-> m.inc.qty]
             ELSE [book |-> M, id |-> order_id, inc_qty |-> m.inc.qty]

\* mutant: the quantity test is qty < 0, so a quantity of 0 is accepted
add_limit_accepts_zero(B, price, qty, is_bid) ==
    IF qty < 0
    THEN [book |-> B, id |-> 0, inc_qty |-> 0]
    ELSE LET inc == Order(B.next_id, price, qty)
             order_id == inc.id
             m == match([B EXCEPT !.next_id = @ + 1], inc, is_bid)
             M == m.book
         IN  IF m.inc.qty > 0
             THEN [book |->
                      Book(IF is_bid THEN LevelPushBack(M.bids, m.inc.price, m.inc)
                                     ELSE M.bids,
                           IF is_bid THEN M.asks
                                     ELSE LevelPushBack(M.asks, m.inc.price, m.inc),
                           IndexPut(M.order_index, order_id, price, is_bid),
                           M.trades, M.next_id),
                   id |-> order_id, inc_qty |-> m.inc.qty]
             ELSE [book |-> M, id |-> order_id, inc_qty |-> m.inc.qty]

\* mutant: the residual is put at the front of its level (push_front)
add_limit_push_front(B, price, qty, is_bid) ==
    IF qty <= 0
    THEN [book |-> B, id |-> 0, inc_qty |-> 0]
    ELSE LET inc == Order(B.next_id, price, qty)
             order_id == inc.id
             m == match([B EXCEPT !.next_id = @ + 1], inc, is_bid)
             M == m.book
             own == IF is_bid THEN M.bids ELSE M.asks
             pushed == [x \in (DOMAIN own) \cup {m.inc.price} |->
                           IF x = m.inc.price
                           THEN (IF x \in DOMAIN own THEN <<m.inc>> \o own[x]
                                 ELSE <<m.inc>>)
                           ELSE own[x]]
         IN  IF m.inc.qty > 0
             THEN [book |->
                      Book(IF is_bid THEN pushed ELSE M.bids,
                           IF is_bid THEN M.asks ELSE pushed,
                           IndexPut(M.order_index, order_id, price, is_bid),
                           M.trades, M.next_id),
                   id |-> order_id, inc_qty |-> m.inc.qty]
             ELSE [book |-> M, id |-> order_id, inc_qty |-> m.inc.qty]

add_limit(B, price, qty, is_bid) ==
    IF qty <= 0
    THEN [book |-> B, id |-> 0, inc_qty |-> 0]
    ELSE LET inc == Order(B.next_id, price, qty)
             order_id == inc.id
             m == match([B EXCEPT !.next_id = @ + 1], inc, is_bid)
             M == m.book
         IN  IF m.inc.qty > 0
             THEN [book |->
                      Book(IF is_bid THEN LevelPushBack(M.bids, m.inc.price, m.inc)
                                     ELSE M.bids,
                           IF is_bid THEN M.asks
                                     ELSE LevelPushBack(M.asks, m.inc.price, m.inc),
                           IndexPut(M.order_index, order_id, price, is_bid),
                           M.trades, M.next_id),
                   id |-> order_id, inc_qty |-> m.inc.qty]
             ELSE [book |-> M, id |-> order_id, inc_qty |-> m.inc.qty]

\* ---------------------------------------------------- OrderBook::add_market

\* mutant: the market order takes next_id without incrementing it
add_market_no_increment(B, qty, is_bid) ==
    IF qty <= 0
    THEN [book |-> B, id |-> 0, inc_qty |-> 0]
    ELSE LET inc == Order(B.next_id,
                          IF is_bid THEN MarketBuyPrice ELSE MarketSellPrice, qty)
             m == match(B, inc, is_bid)
         IN  [book |-> m.book, id |-> inc.id, inc_qty |-> m.inc.qty]

\* mutant: the market order is handed to add_limit, which rests the residual
add_market_rests(B, qty, is_bid) ==
    add_limit(B, IF is_bid THEN MarketBuyPrice ELSE MarketSellPrice, qty, is_bid)

add_market(B, qty, is_bid) ==
    IF qty <= 0
    THEN [book |-> B, id |-> 0, inc_qty |-> 0]
    ELSE LET inc == Order(B.next_id,
                          IF is_bid THEN MarketBuyPrice ELSE MarketSellPrice, qty)
             m == match([B EXCEPT !.next_id = @ + 1], inc, is_bid)
         IN  [book |-> m.book, id |-> inc.id, inc_qty |-> m.inc.qty]

\* -------------------------------------------------------- OrderBook::cancel

\* the for loop over one level: the first position holding id, 0 when none
FindInLevel(level, id) ==
    IF \E i \in 1..Len(level) : level[i].id = id
    THEN MinOf({i \in 1..Len(level) : level[i].id = id})
    ELSE 0

\* mutant: the order removed is the front of the level (pop_front)
cancel_in_pop_front(ladder, price, id) ==
    IF price \in DOMAIN ladder /\ FindInLevel(ladder[price], id) # 0
    THEN LET level == Tail(ladder[price])
         IN  [found |-> TRUE,
              ladder |-> IF level = <<>> THEN MapErase(ladder, price)
                         ELSE [ladder EXCEPT ![price] = level]]
    ELSE [found |-> FALSE, ladder |-> ladder]

\* mutant: a level emptied by the cancel is left in the ladder
cancel_in_keep_level(ladder, price, id) ==
    IF price \in DOMAIN ladder /\ FindInLevel(ladder[price], id) # 0
    THEN LET level == DequeErase(ladder[price], FindInLevel(ladder[price], id))
         IN  [found |-> TRUE,
              ladder |-> [ladder EXCEPT ![price] = level]]
    ELSE [found |-> FALSE, ladder |-> ladder]

\* the search of one ladder; found tells whether the loop returned true
cancel_in(ladder, price, id) ==
    IF price \in DOMAIN ladder /\ FindInLevel(ladder[price], id) # 0
    THEN LET level == DequeErase(ladder[price], FindInLevel(ladder[price], id))
         IN  [found |-> TRUE,
              ladder |-> IF level = <<>> THEN MapErase(ladder, price)
                         ELSE [ladder EXCEPT ![price] = level]]
    ELSE [found |-> FALSE, ladder |-> ladder]

cancel(B, id) ==
    IF id \notin DOMAIN B.order_index
    THEN [book |-> B, ok |-> FALSE]
    ELSE LET price == B.order_index[id].price
             is_bid == B.order_index[id].is_bid
             c == cancel_in(IF is_bid THEN B.bids ELSE B.asks, price, id)
         IN  [book |-> Book(IF is_bid THEN c.ladder ELSE B.bids,
                            IF is_bid THEN B.asks ELSE c.ladder,
                            MapErase(B.order_index, id),
                            B.trades, B.next_id),
              ok |-> c.found]

\* --------------------------------------------------------- OrderBook::clear

\* mutant: clear forgets asks.clear()
clear_keeps_asks(B) == Book(EmptyMap, B.asks, EmptyMap, <<>>, B.next_id)

\* mutant: clear also restarts the id generator
clear_resets_ids(B) == Book(EmptyMap, EmptyMap, EmptyMap, <<>>, 1)

clear(B) == Book(EmptyMap, EmptyMap, EmptyMap, <<>>, B.next_id)

\* -------------------------------------------------- OrderBook::total_orders

total_orders == Cardinality(DOMAIN order_index)

\* ------------------------------------------------------------ state machine

\* the ids of the orders held in a ladder
IdsIn(ladder) ==
    UNION {{ladder[p][k].id : k \in 1..Len(ladder[p])} : p \in DOMAIN ladder}

\* the orders of a ladder that carry this id
OrdersIn(ladder, id) ==
    UNION {{ladder[p][k] : k \in {j \in 1..Len(ladder[p]) : ladder[p][j].id = id}} :
           p \in DOMAIN ladder}

\* the quantity an id holds in the book (0 when it does not rest)
RECURSIVE SetQty(_)
SetQty(S) ==
    IF S = {} THEN 0
    ELSE LET o == CHOOSE x \in S : TRUE IN o.qty + SetQty(S \ {o})

HeldQty(id) == SetQty(OrdersIn(bids, id) \cup OrdersIn(asks, id))

\* f with id mapped to v
HistPut(f, id, v) == [x \in (DOMAIN f) \cup {id} |-> IF x = id THEN v ELSE f[x]]

Cur == Book(bids, asks, order_index, trades, next_id)

Call(op, price, qty, is_bid, id) ==
    [op |-> op, price |-> price, qty |-> qty, is_bid |-> is_bid, id |-> id]

Ret(id, ok, inc_qty) == [id |-> id, ok |-> ok, inc_qty |-> inc_qty]

SetBook(B) ==
    /\ bids' = B.bids
    /\ asks' = B.asks
    /\ order_index' = B.order_index
    /\ trades' = B.trades
    /\ next_id' = B.next_id

Init ==
    /\ bids = EmptyMap
    /\ asks = EmptyMap
    /\ order_index = EmptyMap
    /\ trades = <<>>
    /\ next_id = 1
    /\ call = Call("new", 0, 0, FALSE, 0)
    /\ ret = Ret(0, FALSE, 0)
    /\ submitted = 0
    /\ dropped = 0
    /\ only_submits = TRUE
    /\ market_ids = {}
    /\ cancelled = {}
    /\ side_of = EmptyMap
    /\ inserted = EmptyMap
    /\ cleared_ids = {}
    /\ cancelled_qty = 0

AddLimit ==
    \E price \in Prices, qty \in Qtys, is_bid \in BOOLEAN :
        /\ qty > 0 => next_id <= MaxId
        /\ LET r == add_limit(Cur, price, qty, is_bid)
           IN  /\ SetBook(r.book)
               /\ call' = Call("add_limit", price, qty, is_bid, 0)
               /\ ret' = Ret(r.id, FALSE, r.inc_qty)
               /\ submitted' = IF r.id # 0 THEN submitted + qty ELSE submitted
               /\ side_of' = IF r.id # 0 THEN HistPut(side_of, r.id, is_bid)
                             ELSE side_of
               /\ inserted' = IF r.inc_qty > 0
                              THEN HistPut(inserted, r.id, r.inc_qty)
                              ELSE inserted
        /\ UNCHANGED <<dropped, only_submits, market_ids, cancelled,
                       cleared_ids, cancelled_qty>>

AddMarket ==
    \E qty \in Qtys, is_bid \in BOOLEAN :
        /\ qty > 0 => next_id <= MaxId
        /\ LET r == add_market(Cur, qty, is_bid)
           IN  /\ SetBook(r.book)
               /\ call' = Call("add_market", 0, qty, is_bid, 0)
               /\ ret' = Ret(r.id, FALSE, r.inc_qty)
               /\ submitted' = IF r.id # 0 THEN submitted + qty ELSE submitted
               /\ dropped' = dropped + r.inc_qty
               /\ market_ids' = IF r.id # 0 THEN market_ids \cup {r.id}
                                ELSE market_ids
               /\ side_of' = IF r.id # 0 THEN HistPut(side_of, r.id, is_bid)
                             ELSE side_of
        /\ UNCHANGED <<only_submits, cancelled, inserted, cleared_ids,
                       cancelled_qty>>

Cancel ==
    \E id \in CancelIds :
        /\ LET r == cancel(Cur, id)
           IN  /\ SetBook(r.book)
               /\ call' = Call("cancel", 0, 0, FALSE, id)
               /\ ret' = Ret(0, r.ok, 0)
               /\ cancelled' = IF r.ok THEN cancelled \cup {id} ELSE cancelled
               /\ cancelled_qty' = IF r.ok THEN cancelled_qty + HeldQty(id)
                                   ELSE cancelled_qty
        /\ only_submits' = FALSE
        /\ UNCHANGED <<submitted, dropped, market_ids, side_of, inserted,
                       cleared_ids>>

Clear ==
    /\ SetBook(clear(Cur))
    /\ call' = Call("clear", 0, 0, FALSE, 0)
    /\ ret' = Ret(0, FALSE, 0)
    /\ submitted' = 0
    /\ dropped' = 0
    /\ only_submits' = FALSE
    /\ cleared_ids' = cleared_ids \cup IdsIn(bids) \cup IdsIn(asks)
    /\ cancelled_qty' = 0
    /\ UNCHANGED <<market_ids, cancelled, side_of, inserted>>

Next == AddLimit \/ AddMarket \/ Cancel \/ Clear

Spec == Init /\ [][Next]_vars

\* ------------------------------------------------- vocabulary of the claims

IsSubmit(c) == c.op \in {"add_limit", "add_market"}

\* a step in which add_limit or add_market accepted its order
Accepted == IsSubmit(call') /\ ret'.id # 0

\* the price the incoming order of call c carries into match
IncPrice(c) ==
    IF c.op = "add_limit" THEN c.price
    ELSE IF c.is_bid THEN MarketBuyPrice ELSE MarketSellPrice

\* the id of the resting party of trade t, for an incoming order on side is_bid
RestingId(t, is_bid) == IF is_bid THEN t.seller_id ELSE t.buyer_id

\* buy: level price <= incoming price; sell: level price >= incoming price
Crosses(level_price, inc_price, is_bid) ==
    IF is_bid THEN level_price <= inc_price ELSE level_price >= inc_price

\* level price p comes before q on the ladder opposing an order on side is_bid
Better(p, q, is_bid) == IF is_bid THEN p < q ELSE p > q

RECURSIVE SumQty(_)
SumQty(s) == IF s = <<>> THEN 0 ELSE Head(s).qty + SumQty(Tail(s))

RECURSIVE LadderQty(_, _)
LadderQty(ladder, keys) ==
    IF keys = {} THEN 0
    ELSE LET k == CHOOSE x \in keys : TRUE
         IN  SumQty(ladder[k]) + LadderQty(ladder, keys \ {k})

RECURSIVE LadderCount(_, _)
LadderCount(ladder, keys) ==
    IF keys = {} THEN 0
    ELSE LET k == CHOOSE x \in keys : TRUE
         IN  Len(ladder[k]) + LadderCount(ladder, keys \ {k})

RestingQty == LadderQty(bids, DOMAIN bids) + LadderQty(asks, DOMAIN asks)
RestingCount == LadderCount(bids, DOMAIN bids) + LadderCount(asks, DOMAIN asks)
TradeQty == SumQty(trades)

\* the places <<price, position>> of a ladder where an order with this id sits
PlacesIn(ladder, id) ==
    UNION {{<<p, k>> : k \in {j \in 1..Len(ladder[p]) : ladder[p][j].id = id}} :
           p \in DOMAIN ladder}

\* the places <<is_bid, price, position>> of the book where this id sits
Places(id) ==
    {<<TRUE, pl[1], pl[2]>> : pl \in PlacesIn(bids, id)} \cup
    {<<FALSE, pl[1], pl[2]>> : pl \in PlacesIn(asks, id)}

\* the trades appended by the step, and the ladder the incoming order faced
NewTrades == SubSeq(trades', Len(trades) + 1, Len(trades'))
Opp == IF call'.is_bid THEN asks ELSE bids
OppAfter == IF call'.is_bid THEN asks' ELSE bids'

\* quantity the first j-1 trades of the step took from the resting order id
TakenBefore(id, j) ==
    SumQty(SelectSeq(SubSeq(NewTrades, 1, j - 1),
                     LAMBDA t : RestingId(t, call'.is_bid) = id))

\* quantity the first j-1 trades of the step executed at price q
TakenAtBefore(q, j) ==
    SumQty(SelectSeq(SubSeq(NewTrades, 1, j - 1), LAMBDA t : t.price = q))

\* ------------------------------------------------------------------ claims

\* C1: whenever both ladders are non-empty, the best (highest) bid price is
\* strictly below the best (lowest) ask price.
NoCrossedBook ==
    (DOMAIN bids # {} /\ DOMAIN asks # {}) =>
        MaxOf(DOMAIN bids) < MinOf(DOMAIN asks)

\* a limit order traded part of its quantity and rested the remainder while
\* the other ladder still holds orders
NoCrossedBookWitness ==
    /\ DOMAIN bids # {} /\ DOMAIN asks # {}
    /\ call.op = "add_limit"
    /\ 0 < ret.inc_qty /\ ret.inc_qty < call.qty

\* C2: an id is a key of order_index iff it sits in exactly one place of the
\* ladders, that place being on the indexed side at the indexed price; no two
\* resting orders share an id; total_orders() counts the resting orders.
IndexLadderConsistent ==
    /\ \A id \in (DOMAIN order_index) \cup IdsIn(bids) \cup IdsIn(asks) :
          /\ id \in DOMAIN order_index
          /\ Cardinality(Places(id)) = 1
          /\ \A pl \in Places(id) :
                /\ pl[1] = order_index[id].is_bid
                /\ pl[2] = order_index[id].price
    /\ total_orders = RestingCount

\* orders rest after a trade filled one resting order and a cancel removed another
IndexLadderWitness ==
    /\ total_orders >= 1
    /\ trades # <<>>
    /\ call.op = "cancel" /\ ret.ok

\* C3: a trade of a submission names a resting order only when every order
\* ahead of it in its price level has been filled completely by the earlier
\* trades of that submission.
TimePriorityStep ==
    Accepted =>
        \A j \in 1..Len(NewTrades) :
            \E p \in DOMAIN Opp :
                \E k \in 1..Len(Opp[p]) :
                    /\ Opp[p][k].id = RestingId(NewTrades[j], call'.is_bid)
                    /\ \A i \in 1..(k - 1) :
                          TakenBefore(Opp[p][i].id, j) = Opp[p][i].qty

TimePriority == [][TimePriorityStep]_vars

\* one submission traded with two different resting orders of one price level
TimePriorityWitness ==
    \E j \in 1..(Len(trades) - 1) :
        /\ trades[j].price = trades[j + 1].price
        /\ \/ /\ trades[j].buyer_id = trades[j + 1].buyer_id
              /\ trades[j].seller_id # trades[j + 1].seller_id
              /\ trades[j].buyer_id > trades[j].seller_id
              /\ trades[j].buyer_id > trades[j + 1].seller_id
           \/ /\ trades[j].seller_id = trades[j + 1].seller_id
              /\ trades[j].buyer_id # trades[j + 1].buyer_id
              /\ trades[j].seller_id > trades[j].buyer_id
              /\ trades[j].seller_id > trades[j + 1].buyer_id

\* C4: the trades of one submission go from the best opposing price outward;
\* a level is traded against only after every better level has been emptied
\* and removed; every traded level satisfies the crossing condition; matching
\* ends with the incoming quantity at 0 or with no crossing level left.
PricePriorityStep ==
    Accepted =>
        LET nt == NewTrades
            b == call'.is_bid
            ip == IncPrice(call')
        IN  /\ \A i, j \in 1..Len(nt) :
                  i < j => ~Better(nt[j].price, nt[i].price, b)
            /\ \A j \in 1..Len(nt) :
                  /\ nt[j].price \in DOMAIN Opp
                  /\ Crosses(nt[j].price, ip, b)
                  /\ nt[j].qty > 0
                  /\ \A q \in DOMAIN Opp :
                        Better(q, nt[j].price, b) =>
                            /\ q \notin DOMAIN OppAfter
                            /\ TakenAtBefore(q, j) = SumQty(Opp[q])
            /\ SumQty(nt) <= call'.qty
            /\ ret'.inc_qty = call'.qty - SumQty(nt)
            /\ ret'.inc_qty > 0 =>
                  \A q \in DOMAIN OppAfter : ~Crosses(q, ip, b)

PricePriority == [][PricePriorityStep]_vars

\* one submission traded at two different prices
PricePriorityWitness ==
    \E j \in 1..(Len(trades) - 1) :
        \/ /\ trades[j].buyer_id = trades[j + 1].buyer_id
           /\ trades[j].price < trades[j + 1].price
        \/ /\ trades[j].seller_id = trades[j + 1].seller_id
           /\ trades[j].price > trades[j + 1].price

\* C5: every trade carries the price of the order that was resting (its own
\* price field and the key of its level); a limit buy never trades above its
\* limit and a limit sell never below.
ExecutionPriceStep ==
    Accepted =>
        \A j \in 1..Len(NewTrades) :
            LET t == NewTrades[j]
            IN  /\ \E p \in DOMAIN Opp :
                      \E k \in 1..Len(Opp[p]) :
                          /\ Opp[p][k].id = RestingId(t, call'.is_bid)
                          /\ p = t.price
                          /\ Opp[p][k].price = t.price
                /\ call'.op = "add_limit" =>
                      IF call'.is_bid THEN t.price <= call'.price
                      ELSE t.price >= call'.price

ExecutionPrice == [][ExecutionPriceStep]_vars

\* a limit buy traded below its limit: the resting price, not its own
ExecutionPriceWitness ==
    /\ call.op = "add_limit" /\ call.is_bid
    /\ trades # <<>>
    /\ trades[Len(trades)].buyer_id = ret.id
    /\ trades[Len(trades)].price < call.price

\* C6 as stated: with submissions only, submitted quantity = resting quantity
\* + traded quantity + dropped market residuals.
ConservationOneSided ==
    only_submits => submitted = RestingQty + TradeQty + dropped

\* C6 amended: with submissions only, submitted quantity = resting quantity
\* + twice the traded quantity + dropped market residuals (a trade takes its
\* quantity from the buyer and from the seller).
ConservationTwoSided ==
    only_submits => submitted = RestingQty + 2 * TradeQty + dropped

\* submissions only, with a trade, a dropped market residual and a resting order
ConservationWitness ==
    /\ only_submits
    /\ trades # <<>>
    /\ dropped > 0
    /\ RestingQty > 0

\* C7: after an accepted add_market, its whole quantity was traded or the
\* opposing ladder is empty.
MarketFillsOrEmpties ==
    (call.op = "add_market" /\ ret.id # 0) =>
        \/ ret.inc_qty = 0
        \/ DOMAIN (IF call.is_bid THEN asks ELSE bids) = {}

\* C8: an id returned by add_market is never in order_index nor in a ladder;
\* add_market never raises total_orders() and never creates a price level;
\* a cancel of such an id returns false.
MarketNeverRestsStep ==
    /\ \A id \in market_ids' :
          /\ id \notin DOMAIN order_index'
          /\ id \notin IdsIn(bids') \cup IdsIn(asks')
    /\ call'.op = "add_market" =>
          /\ Cardinality(DOMAIN order_index') <= Cardinality(DOMAIN order_index)
          /\ DOMAIN bids' \subseteq DOMAIN bids
          /\ DOMAIN asks' \subseteq DOMAIN asks
    /\ (call'.op = "cancel" /\ call'.id \in market_ids) => ~ret'.ok

MarketNeverRests == [][MarketNeverRestsStep]_vars

\* a market order's residual was dropped and a market order's id was cancelled
MarketNeverRestsWitness ==
    /\ call.op = "cancel"
    /\ call.id \in market_ids
    /\ dropped > 0

\* C9: a submission with quantity <= 0 returns 0 and leaves both ladders, the
\* index, the trade log and next_id as they were; an accepted submission
\* returns a non-zero id, and 0 is the id of no resting order.
RejectedInputStep ==
    /\ (IsSubmit(call') /\ call'.qty <= 0) =>
          /\ ret'.id = 0
          /\ UNCHANGED book_vars
    /\ (IsSubmit(call') /\ call'.qty > 0) =>
          /\ ret'.id # 0
          /\ ret'.id = next_id
    /\ 0 \notin DOMAIN order_index'
    /\ 0 \notin IdsIn(bids') \cup IdsIn(asks')

RejectedInput == [][RejectedInputStep]_vars

\* a submission was rejected on a book that holds orders and trades
RejectedInputWitness ==
    /\ IsSubmit(call)
    /\ call.qty <= 0
    /\ ret.id = 0
    /\ total_orders > 0
    /\ trades # <<>>

\* C10: a cancel of an id for which an earlier cancel returned true returns false.
CancelOnceStep ==
    (call'.op = "cancel" /\ call'.id \in cancelled) => ~ret'.ok

CancelOnce == [][CancelOnceStep]_vars

\* a second cancel of a cancelled id returned false while orders rest
CancelOnceWitness ==
    /\ call.op = "cancel"
    /\ call.id \in cancelled
    /\ ~ret.ok
    /\ total_orders > 0

\* the ids resting in the book before the step
RestingIds == IdsIn(bids) \cup IdsIn(asks)

\* C11: a cancel of a resting order returns true; a cancel that returns true
\* removes exactly that order from its level, keeps the order and the
\* quantities of the others in the level, removes the level when it is left
\* empty, removes the index entry (total_orders() drops by 1) and leaves the
\* other levels, the opposite ladder, the trade log and next_id as they were.
CancelEffectStep ==
    call'.op = "cancel" =>
        /\ call'.id \in RestingIds => ret'.ok
        /\ ret'.ok =>
              \E b \in BOOLEAN :
                  LET own == IF b THEN bids ELSE asks
                      ownAfter == IF b THEN bids' ELSE asks'
                      other == IF b THEN asks ELSE bids
                      otherAfter == IF b THEN asks' ELSE bids'
                  IN  \E p \in DOMAIN own :
                          \E k \in 1..Len(own[p]) :
                              /\ own[p][k].id = call'.id
                              /\ IF Len(own[p]) = 1
                                 THEN DOMAIN ownAfter = (DOMAIN own) \ {p}
                                 ELSE /\ DOMAIN ownAfter = DOMAIN own
                                      /\ Len(ownAfter[p]) = Len(own[p]) - 1
                                      /\ \A i \in 1..(Len(own[p]) - 1) :
                                            ownAfter[p][i] =
                                                IF i < k THEN own[p][i]
                                                ELSE own[p][i + 1]
                              /\ \A q \in (DOMAIN own) \ {p} :
                                    q \in DOMAIN ownAfter /\ ownAfter[q] = own[q]
                              /\ otherAfter = other
        /\ ret'.ok =>
              /\ DOMAIN order_index' = (DOMAIN order_index) \ {call'.id}
              /\ \A x \in DOMAIN order_index' : order_index'[x] = order_index[x]
              /\ Cardinality(DOMAIN order_index') =
                     Cardinality(DOMAIN order_index) - 1
              /\ trades' = trades
              /\ next_id' = next_id

CancelEffect == [][CancelEffectStep]_vars

\* an order was cancelled while an older and a younger order share a level
CancelEffectWitness ==
    /\ call.op = "cancel" /\ ret.ok
    /\ \E b \in BOOLEAN :
          LET own == IF b THEN bids ELSE asks
          IN  \E p \in DOMAIN own :
                  /\ Len(own[p]) >= 2
                  /\ own[p][1].id < call.id
                  /\ own[p][2].id > call.id

\* C12: cancel returns false exactly when the id is not resting: so for the
\* sentinel 0, an id not yet issued, a market order's id, a cancelled id and
\* an id removed by clear; a cancel that returns false leaves both ladders,
\* the index, the trade log and next_id as they were.
FailedCancelStep ==
    call'.op = "cancel" =>
        /\ (~ret'.ok) <=> (call'.id \notin RestingIds)
        /\ (\/ call'.id = 0
            \/ call'.id >= next_id
            \/ call'.id \in market_ids
            \/ call'.id \in cancelled
            \/ call'.id \in cleared_ids) => ~ret'.ok
        /\ ~ret'.ok => UNCHANGED book_vars

FailedCancel == [][FailedCancelStep]_vars

\* a cancel of a limit order that had been filled returned false while orders rest
FailedCancelWitness ==
    /\ call.op = "cancel" /\ ~ret.ok
    /\ call.id \notin market_ids \cup cancelled \cup cleared_ids
    /\ \E j \in 1..Len(trades) :
          call.id \in {trades[j].buyer_id, trades[j].seller_id}
    /\ total_orders > 0

\* C13: the id returned by an accepted submission is greater than every id
\* returned before, also before a clear.
UniqueIdsStep ==
    (IsSubmit(call') /\ ret'.id # 0) =>
        \A i \in DOMAIN side_of : ret'.id > i

UniqueIds == [][UniqueIdsStep]_vars

\* the first submission accepted after a clear, with two ids issued before it
UniqueIdsWitness ==
    /\ IsSubmit(call) /\ ret.id # 0
    /\ submitted = call.qty
    /\ Cardinality((DOMAIN side_of) \ {ret.id}) >= 2

\* C14: clear empties both ladders, the index and the trade log and keeps
\* next_id; an id that was resting at a clear never rests again, cannot be
\* cancelled and is named by no later trade; the first submission after a
\* clear finds an empty book: it trades nothing, and a limit order rests alone.
ResetStep ==
    /\ call'.op = "clear" =>
          /\ DOMAIN bids' = {}
          /\ DOMAIN asks' = {}
          /\ DOMAIN order_index' = {}
          /\ Cardinality(DOMAIN order_index') = 0
          /\ trades' = <<>>
          /\ next_id' = next_id
    /\ cleared_ids' \cap
          ((DOMAIN order_index') \cup IdsIn(bids') \cup IdsIn(asks')) = {}
    /\ (call'.op = "cancel" /\ call'.id \in cleared_ids) => ~ret'.ok
    /\ Accepted =>
          \A j \in 1..Len(NewTrades) :
              /\ NewTrades[j].buyer_id \notin cleared_ids
              /\ NewTrades[j].seller_id \notin cleared_ids
    /\ (call.op = "clear" /\ Accepted) =>
          /\ trades' = <<>>
          /\ ret'.inc_qty = call'.qty
          /\ LET own == IF call'.is_bid THEN bids' ELSE asks'
                 other == IF call'.is_bid THEN asks' ELSE bids'
             IN  IF call'.op = "add_limit"
                 THEN /\ DOMAIN order_index' = {ret'.id}
                      /\ DOMAIN own = {call'.price}
                      /\ own[call'.price] =
                             <<Order(ret'.id, call'.price, call'.qty)>>
                      /\ DOMAIN other = {}
                 ELSE /\ DOMAIN order_index' = {}
                      /\ DOMAIN own = {}
                      /\ DOMAIN other = {}

Reset == [][ResetStep]_vars

\* after a clear, new orders traded and rest, and a cancel of an id the
\* clear removed returned false
ResetWitness ==
    /\ call.op = "cancel" /\ ~ret.ok
    /\ call.id \in cleared_ids
    /\ total_orders > 0
    /\ trades # <<>>

\* C15: in every trade the buyer is an order submitted on the buy side, the
\* seller an order submitted on the sell side, and the two ids differ.
TradeDirection ==
    \A j \in 1..Len(trades) :
        /\ trades[j].buyer_id \in DOMAIN side_of
        /\ trades[j].seller_id \in DOMAIN side_of
        /\ side_of[trades[j].buyer_id]
        /\ ~side_of[trades[j].seller_id]
        /\ trades[j].buyer_id # trades[j].seller_id

\* the log holds a trade whose incoming order was the buy and one whose
\* incoming order was the sell
TradeDirectionWitness ==
    /\ \E j \in 1..Len(trades) : trades[j].buyer_id > trades[j].seller_id
    /\ \E j \in 1..Len(trades) : trades[j].seller_id > trades[j].buyer_id

\* C16: every operation but clear keeps the trade log it found as a prefix
\* of the log it leaves; cancel and a rejected submission leave it as it
\* was; the trades a submission appends all name that submission's order.
AppendOnlyStep ==
    /\ call'.op # "clear" =>
          /\ Len(trades') >= Len(trades)
          /\ SubSeq(trades', 1, Len(trades)) = trades
    /\ (call'.op = "cancel" \/ (IsSubmit(call') /\ ret'.id = 0)) =>
          trades' = trades
    /\ Accepted =>
          \A j \in (Len(trades) + 1)..Len(trades') :
              ret'.id = IF call'.is_bid THEN trades'[j].buyer_id
                        ELSE trades'[j].seller_id

AppendOnly == [][AppendOnlyStep]_vars

\* a submission appended its trade behind the trade of an earlier submission
AppendOnlyWitness ==
    /\ IsSubmit(call) /\ ret.id # 0
    /\ Len(trades) >= 2
    /\ ret.id \in {trades[Len(trades)].buyer_id, trades[Len(trades)].seller_id}
    /\ ret.id \notin {trades[1].buyer_id, trades[1].seller_id}

\* quantity the trades of the step took from the resting order id
Taken(id) == TakenBefore(id, Len(NewTrades) + 1)

\* the orders the incoming order faced, as a set
OppOrders == UNION {{Opp[p][k] : k \in 1..Len(Opp[p])} : p \in DOMAIN Opp}

\* C17: after an accepted add_limit(price, q, side) that matched m: if m < q
\* the order is the last of the queue for (side, price) with quantity q - m
\* and has an index entry, if m = q it is in neither ladder nor the index;
\* total_orders() changes by (1 if it rests, else 0) minus the number of
\* resting orders filled completely; a resting order filled in part stays
\* where it was with its quantity reduced by the fill.
LimitResidualStep ==
    (call'.op = "add_limit" /\ ret'.id # 0) =>
        LET m == SumQty(NewTrades)
            own == IF call'.is_bid THEN bids' ELSE asks'
            filled == {o \in OppOrders : Taken(o.id) = o.qty}
            partly == {o \in OppOrders : 0 < Taken(o.id) /\ Taken(o.id) < o.qty}
        IN  /\ m <= call'.qty
            /\ m < call'.qty =>
                  /\ call'.price \in DOMAIN own
                  /\ own[call'.price][Len(own[call'.price])] =
                         Order(ret'.id, call'.price, call'.qty - m)
                  /\ Cardinality(PlacesIn(bids', ret'.id)) +
                         Cardinality(PlacesIn(asks', ret'.id)) = 1
                  /\ ret'.id \in DOMAIN order_index'
                  /\ order_index'[ret'.id] =
                         [price |-> call'.price, is_bid |-> call'.is_bid]
            /\ m = call'.qty =>
                  /\ ret'.id \notin IdsIn(bids') \cup IdsIn(asks')
                  /\ ret'.id \notin DOMAIN order_index'
            /\ Cardinality(DOMAIN order_index') =
                   Cardinality(DOMAIN order_index)
                       + (IF m < call'.qty THEN 1 ELSE 0) - Cardinality(filled)
            /\ \A o \in filled : o.id \notin IdsIn(OppAfter)
            /\ \A o \in partly :
                  /\ o.price \in DOMAIN OppAfter
                  /\ \E k \in 1..Len(OppAfter[o.price]) :
                        OppAfter[o.price][k] =
                            [o EXCEPT !.qty = o.qty - Taken(o.id)]

LimitResidual == [][LimitResidualStep]_vars

\* a limit order filled one resting order, was filled in part itself and rests
LimitResidualWitness ==
    /\ call.op = "add_limit"
    /\ 0 < ret.inc_qty /\ ret.inc_qty < call.qty
    /\ ret.id \in DOMAIN order_index
    /\ total_orders = 1

\* C18: every price level in a ladder has a non-empty queue, every resting
\* order has quantity > 0, and every recorded trade has quantity > 0.
NoEmptyLevels ==
    /\ \A p \in DOMAIN bids :
          /\ bids[p] # <<>>
          /\ \A k \in 1..Len(bids[p]) : bids[p][k].qty > 0
    /\ \A p \in DOMAIN asks :
          /\ asks[p] # <<>>
          /\ \A k \in 1..Len(asks[p]) : asks[p][k].qty > 0
    /\ \A j \in 1..Len(trades) : trades[j].qty > 0

\* a cancel emptied the only level of one ladder after a trade, the other
\* ladder still holds orders
NoEmptyLevelsWitness ==
    /\ call.op = "cancel" /\ ret.ok
    /\ trades # <<>>
    /\ \/ DOMAIN bids = {} /\ DOMAIN asks # {}
       \/ DOMAIN asks = {} /\ DOMAIN bids # {}

\* C19: since the last clear, accepted submitted quantity = resting quantity
\* + twice the traded quantity + dropped market residuals + the quantities
\* orders held when they were cancelled.
TwoSidedAccounting ==
    submitted = RestingQty + 2 * TradeQty + dropped + cancelled_qty

\* a trade, a dropped market residual and a cancelled quantity since the
\* last clear
TwoSidedAccountingWitness ==
    /\ trades # <<>>
    /\ dropped > 0
    /\ cancelled_qty > 0

\* the best price of a ladder on the given side
BestOf(ladder, is_bid) ==
    IF is_bid THEN MaxOf(DOMAIN ladder) ELSE MinOf(DOMAIN ladder)

\* every order of the ladder but the front of its best level holds the
\* quantity it was inserted with; the front of the best level holds no more
UntouchedOffBest(ladder, is_bid, ins) ==
    \A p \in DOMAIN ladder :
        \A k \in 1..Len(ladder[p]) :
            /\ ladder[p][k].id \in DOMAIN ins
            /\ IF p = BestOf(ladder, is_bid) /\ k = 1
               THEN ladder[p][k].qty <= ins[ladder[p][k].id]
               ELSE ladder[p][k].qty = ins[ladder[p][k].id]

\* every order of the ladder behind the front of its level holds the
\* quantity it was inserted with; the front of a level holds no more
UntouchedBehindFront(ladder, ins) ==
    \A p \in DOMAIN ladder :
        \A k \in 1..Len(ladder[p]) :
            /\ ladder[p][k].id \in DOMAIN ins
            /\ IF k = 1
               THEN ladder[p][k].qty <= ins[ladder[p][k].id]
               ELSE ladder[p][k].qty = ins[ladder[p][k].id]

\* a resting order the step filled in part is the front of its queue after it
KeepsFront ==
    Accepted =>
        \A o \in OppOrders :
            (0 < Taken(o.id) /\ Taken(o.id) < o.qty) =>
                /\ o.price \in DOMAIN OppAfter
                /\ OppAfter[o.price][1] = [o EXCEPT !.qty = o.qty - Taken(o.id)]

\* C20 as stated: after every operation, every resting order that is not the
\* front of the best level of its ladder has the quantity it was inserted
\* with; a resting order filled in part stays the front of its queue.
FrontOfBestOnlyStep ==
    /\ UntouchedOffBest(bids', TRUE, inserted')
    /\ UntouchedOffBest(asks', FALSE, inserted')
    /\ KeepsFront

FrontOfBestOnly == [][FrontOfBestOnlyStep]_vars

\* C20 amended: after every operation, every resting order that is not the
\* front of its own price level has the quantity it was inserted with; a
\* resting order filled in part stays the front of its queue.
FrontOnlyStep ==
    /\ UntouchedBehindFront(bids', inserted')
    /\ UntouchedBehindFront(asks', inserted')
    /\ KeepsFront

FrontOnly == [][FrontOnlyStep]_vars

\* a partly filled order is the front of a level with another order behind it
FrontOnlyWitness ==
    \E b \in BOOLEAN :
        LET own == IF b THEN bids ELSE asks
        IN  \E p \in DOMAIN own :
                /\ Len(own[p]) >= 2
                /\ own[p][1].qty < inserted[own[p][1].id]

=============================================================================
